---- MODULE Spec2Model ----
(***************************************************************************)
(* Model of toAlgo.py: the batch converter that sends every image of       *)
(* images/ to a vision model, strips markdown fences from the answer and   *)
(* writes codes/<stem>.tex.                                                *)
(*                                                                         *)
(* Strings are sequences of one-character strings, so that the regular     *)
(* expressions, strip(), glob(), stem and the path ordering are computed   *)
(* character by character as Python computes them.                         *)
(***************************************************************************)
EXTENDS Integers, Sequences, FiniteSets, TLC

VARIABLES
    api_key,      \* value of os.getenv('OPENAI_API_KEY')
    posix,        \* TRUE: POSIX path flavour, FALSE: Windows path flavour
    images_dir,   \* names of the entries of images/, or NoDir
    service,      \* contents the inference service may answer with
    codes_exists, \* codes/ exists
    codes,        \* output path -> content of the file in codes/
    constructed,  \* AlgorithmImageConverter.__init__ has run
    pc,           \* position of main / process_all_images
    image_files,  \* the discovered paths in the order the loop visits them
    idx,          \* position of the for loop in image_files
    successful,   \* counter of process_all_images
    failed,       \* counter of process_all_images
    reads,        \* number of open(image_path, "rb")
    calls,        \* number of client.chat.completions.create(...)
    writes,       \* number of calls of save_latex_code
    log,          \* one record per item the loop handed to process_single_image
    san_in,       \* argument of the sanitizer when applied on its own
    san_once,     \* clean_latex_output(san_in)
    san_twice,    \* clean_latex_output(san_once)
    san_pc        \* how often the sanitizer has been applied

vars == <<api_key, posix, images_dir, service, codes_exists, codes,
          constructed, pc, image_files, idx, successful, failed, reads,
          calls, writes, log, san_in, san_once, san_twice, san_pc>>

pipeVars == <<api_key, posix, images_dir, service, codes_exists, codes,
              constructed, pc, image_files, idx, successful, failed, reads,
              calls, writes, log>>

sanVars == <<san_in, san_once, san_twice, san_pc>>

----------------------------------------------------------------------------
(* Bounds *)

\* largest number of entries of images/
MaxEntries == 3
\* largest number of fragments of a string handed to the sanitizer on its own
MaxPieces == 5
\* largest number of fragments of a service answer in the single-answer runs
MaxRespPieces == 4

----------------------------------------------------------------------------
(* Values *)

\* Python's None: its only element is not a character, so it differs from
\* every string
None == <<"None">>
\* the inference call raised (network, authentication, malformed response)
APIError == <<"APIError">>
\* images/ does not exist
NoDir == {<<"NoDir">>}

\* the backtick character (a TLA+ string cannot hold it)
BT == "bt"

\* the literals of the two regular expressions of clean_latex_output
Fence == <<BT, BT, BT>>
FenceLatex == <<BT, BT, BT, "l", "a", "t", "e", "x">>

----------------------------------------------------------------------------
(* Strings *)

\* the whitespace str.strip() removes, within the alphabet of the model
Whitespace == {" ", "\n", "\t"}

StartsWith(s, p) ==
    /\ Len(p) <= Len(s)
    /\ SubSeq(s, 1, Len(p)) = p

EndsWith(s, p) ==
    /\ Len(p) <= Len(s)
    /\ SubSeq(s, Len(s) - Len(p) + 1, Len(s)) = p

Drop(s, n) == SubSeq(s, n + 1, Len(s))

RECURSIVE LStrip(_)
LStrip(s) ==
    IF s # <<>> /\ Head(s) \in Whitespace THEN LStrip(Tail(s)) ELSE s

RECURSIVE RStrip(_)
RStrip(s) ==
    IF s # <<>> /\ s[Len(s)] \in Whitespace
    THEN RStrip(SubSeq(s, 1, Len(s) - 1))
    ELSE s

\* str.strip()
Strip(s) == RStrip(LStrip(s))

\* re.sub of the pattern "lit, then an optional newline" by the empty string:
\* the matches are found from the left, do not overlap, and each takes the
\* newline that follows it
RECURSIVE ReSub(_, _)
ReSub(lit, s) ==
    IF s = <<>> THEN <<>>
    ELSE IF StartsWith(s, lit)
         THEN LET rest == Drop(s, Len(lit))
              IN  IF rest # <<>> /\ Head(rest) = "\n"
                  THEN ReSub(lit, Tail(rest))
                  ELSE ReSub(lit, rest)
         ELSE <<Head(s)>> \o ReSub(lit, Tail(s))

\* s contains lit
RECURSIVE Contains(_, _)
Contains(s, lit) ==
    IF Len(s) < Len(lit) THEN FALSE
    ELSE StartsWith(s, lit) \/ Contains(Tail(s), lit)

\* clean_latex_output without the final strip()
clean_latex_output_nostrip(latex_code) ==
    IF latex_code = None \/ latex_code = <<>>
    THEN None
    ELSE ReSub(Fence, ReSub(FenceLatex, latex_code))

\* AlgorithmImageConverter.clean_latex_output
clean_latex_output(latex_code) ==
    IF latex_code = None \/ latex_code = <<>>
    THEN None
    ELSE Strip(ReSub(Fence, ReSub(FenceLatex, latex_code)))

----------------------------------------------------------------------------
(* Paths *)

UpperToLower ==
    ("B" :> "b") @@ ("G" :> "g") @@ ("N" :> "n") @@ ("P" :> "p")

LowerChar(c) == IF c \in DOMAIN UpperToLower THEN UpperToLower[c] ELSE c

\* str.lower()
Lower(s) == [i \in 1..Len(s) |-> LowerChar(s[i])]

\* code points of the characters of the file names
CharCode ==
    ("." :> 46) @@ ("1" :> 49) @@ ("B" :> 66) @@ ("G" :> 71) @@ ("N" :> 78)
    @@ ("P" :> 80) @@ ("a" :> 97) @@ ("b" :> 98) @@ ("e" :> 101)
    @@ ("g" :> 103) @@ ("j" :> 106) @@ ("l" :> 108) @@ ("n" :> 110)
    @@ ("o" :> 111) @@ ("p" :> 112) @@ ("s" :> 115) @@ ("t" :> 116)
    @@ ("x" :> 120)

\* the case normalisation of the path flavour: none on POSIX, lower case on
\* Windows
NormCase(s) == IF posix THEN s ELSE Lower(s)

\* s < t for strings, by code point
RECURSIVE StrLess(_, _)
StrLess(s, t) ==
    IF t = <<>> THEN FALSE
    ELSE IF s = <<>> THEN TRUE
    ELSE IF Head(s) # Head(t) THEN CharCode[Head(s)] < CharCode[Head(t)]
    ELSE StrLess(Tail(s), Tail(t))

\* Path.__lt__ for two entries of the same directory
PathLess(a, b) == StrLess(NormCase(a), NormCase(b))

\* position of the last dot of a name, 0 when it has none
RECURSIVE LastDot(_)
LastDot(name) ==
    IF name = <<>> THEN 0
    ELSE IF name[Len(name)] = "." THEN Len(name)
    ELSE LastDot(SubSeq(name, 1, Len(name) - 1))

\* Path.suffix: from the last dot, unless that dot leads or ends the name
Suffix(name) ==
    LET i == LastDot(name)
    IN  IF 1 < i /\ i < Len(name) THEN Drop(name, i - 1) ELSE <<>>

\* Path.stem: the name without its suffix
Stem(name) ==
    LET i == LastDot(name)
    IN  IF 1 < i /\ i < Len(name) THEN SubSeq(name, 1, i - 1) ELSE name

\* self.codes_dir / f"{base_name}.tex", as the name within codes/
OutputPath(name) == Stem(name) \o <<".", "t", "e", "x">>

\* image_path.name.startswith('.')
IsHidden(name) == StartsWith(name, <<".">>)

\* self.supported_formats
supported_formats ==
    { <<".", "p", "n", "g">>, <<".", "j", "p", "g">>,
      <<".", "j", "p", "e", "g">>, <<".", "g", "i", "f">>,
      <<".", "w", "e", "b", "p">> }

\* self.images_dir.glob(f"*{suffix}"): the entries whose name ends with the
\* suffix, compared as the path flavour compares
Glob(dir, suffix) ==
    { n \in dir : EndsWith(NormCase(n), NormCase(suffix)) }

\* the elements of a set of names as a list
RECURSIVE SetToList(_)
SetToList(S) ==
    IF S = {} THEN <<>>
    ELSE LET m == CHOOSE m \in S : \A o \in S : ~PathLess(o, m)
         IN  <<m>> \o SetToList(S \ {m})

\* image_files after the loop over the formats: one extend per format
RECURSIVE ExtendGlobs(_, _)
ExtendGlobs(dir, fmts) ==
    IF fmts = {} THEN <<>>
    ELSE LET f == CHOOSE f \in fmts : TRUE
         IN  SetToList(Glob(dir, f)) \o ExtendGlobs(dir, fmts \ {f})

\* insertion of one path into a sorted list, after its equals
RECURSIVE Insert(_, _)
Insert(p, list) ==
    IF list = <<>> THEN <<p>>
    ELSE IF PathLess(p, Head(list)) THEN <<p>> \o list
    ELSE <<Head(list)>> \o Insert(p, Tail(list))

\* sorted(image_files)
RECURSIVE Sorted(_)
Sorted(list) ==
    IF list = <<>> THEN <<>>
    ELSE Insert(list[Len(list)], Sorted(SubSeq(list, 1, Len(list) - 1)))

----------------------------------------------------------------------------
(* The environment *)

alg1_png == <<"a", "l", "g", "1", ".", "p", "n", "g">>
alg1_jpg == <<"a", "l", "g", "1", ".", "j", "p", "g">>
notes_txt == <<"n", "o", "t", "e", "s", ".", "t", "x", "t">>
\* a hidden file with a recognized extension
hidden_png == <<".", "a", ".", "p", "n", "g">>
\* a recognized extension in upper case
B_PNG == <<"B", ".", "P", "N", "G">>
b_jpeg == <<"b", ".", "j", "p", "e", "g">>

\* the names an entry of images/ may have
Names == {alg1_png, alg1_jpg, notes_txt, hidden_png, B_PNG, b_jpeg}

\* the contents of images/
Directories == { d \in SUBSET Names : Cardinality(d) <= MaxEntries }

\* the values of the credential: unset, empty, set
Credentials == {None, <<>>, <<"s", "k">>}

\* message.content of the first choice: absent, blank, only fences, a block
\* in a latex fence, bare code
ServiceContents ==
    { None,
      <<" ">>,
      <<BT, BT, BT, "\n", BT, BT, BT>>,
      <<BT, BT, BT, "l", "a", "t", "e", "x", "\n", "x", "\n", BT, BT, BT>>,
      <<"y">> }

----------------------------------------------------------------------------
(* The program *)

\* the check of the credential as a test for None only
MissingCredentialNoneOnly(key) == key = None

\* main, line 198: not api_key
MissingCredential(key) == key = None \/ key = <<>>

\* process_single_image, line 136: not latex_code
NoResponse(latex_code) == latex_code = None \/ latex_code = <<>>

\* the check of the cleaned code as a test for None only
NoValidCodeNoneOnly(cleaned_code) == cleaned_code = None

\* process_single_image, line 143: not cleaned_code
NoValidCode(cleaned_code) == cleaned_code = None \/ cleaned_code = <<>>

\* analyze_algorithm_image once the image is read: the stripped content of
\* the first choice, or None when the call or the access to the content raised
analyze_algorithm_image(answer) ==
    IF answer = APIError \/ answer = None THEN None ELSE Strip(answer)

Init ==
    /\ api_key \in Credentials
    /\ posix \in BOOLEAN
    /\ images_dir \in Directories \cup {NoDir}
    /\ service = ServiceContents
    /\ codes_exists \in BOOLEAN
    /\ codes = <<>>
    /\ constructed = FALSE
    /\ pc = "start"
    /\ image_files = <<>>
    /\ idx = 1
    /\ successful = 0
    /\ failed = 0
    /\ reads = 0
    /\ calls = 0
    /\ writes = 0
    /\ log = <<>>
    /\ san_in = None
    /\ san_once = None
    /\ san_twice = None
    /\ san_pc = "idle"

\* main up to the construction of the converter, and __init__: the check of
\* the credential, then codes_dir.mkdir(exist_ok=True), which raises when the
\* directory cannot be created
Main ==
    /\ pc = "start"
    /\ IF MissingCredential(api_key)
       THEN /\ pc' = "no_credential"
            /\ UNCHANGED <<constructed, codes_exists>>
       ELSE \E mkdir_ok \in BOOLEAN :
                IF codes_exists \/ mkdir_ok
                THEN /\ pc' = "constructed"
                     /\ constructed' = TRUE
                     /\ codes_exists' = TRUE
                ELSE /\ pc' = "crashed"
                     /\ UNCHANGED <<constructed, codes_exists>>
    /\ UNCHANGED <<api_key, posix, images_dir, service, codes, image_files,
                   idx, successful, failed, reads, calls, writes, log>>
    /\ UNCHANGED sanVars

\* process_all_images up to the loop: the check of the directory, the globs,
\* the check for no file, the counters, and the sort the loop iterates over
Discover ==
    /\ pc = "constructed"
    /\ IF images_dir = NoDir
       THEN /\ pc' = "no_dir"
            /\ UNCHANGED <<image_files, idx, successful, failed>>
       ELSE LET found == ExtendGlobs(images_dir, supported_formats)
            IN  IF found = <<>>
                THEN /\ pc' = "no_items"
                     /\ UNCHANGED <<image_files, idx, successful, failed>>
                ELSE /\ pc' = "loop"
                     /\ image_files' = Sorted(found)
                     /\ idx' = 1
                     /\ successful' = 0
                     /\ failed' = 0
    /\ UNCHANGED <<api_key, posix, images_dir, service, codes_exists, codes,
                   constructed, reads, calls, writes, log>>
    /\ UNCHANGED sanVars

\* one iteration of the loop on a hidden file: continue
SkipHidden ==
    /\ pc = "loop"
    /\ idx <= Len(image_files)
    /\ IsHidden(image_files[idx])
    /\ idx' = idx + 1
    /\ UNCHANGED <<api_key, posix, images_dir, service, codes_exists, codes,
                   constructed, pc, image_files, successful, failed, reads,
                   calls, writes, log>>
    /\ UNCHANGED sanVars

\* what save_latex_code leaves at output_path and returns: the file holds
\* the code when open and write succeed; nothing changes when open raises;
\* the file is left truncated when the write raises after the open
SaveOutcomes == {"saved", "open_failed", "write_failed"}

\* save_latex_code opening the file for appending
save_latex_code_append(files, latex_code, output_path, outcome) ==
    LET old == IF output_path \in DOMAIN files THEN files[output_path]
               ELSE <<>>
    IN  IF outcome = "saved"
        THEN (output_path :> (old \o latex_code)) @@ files
        ELSE files

save_latex_code(files, latex_code, output_path, outcome) ==
    IF outcome = "saved" THEN (output_path :> latex_code) @@ files
    ELSE IF outcome = "write_failed" THEN (output_path :> <<>>) @@ files
    ELSE files

\* one iteration of the loop on a file that is not hidden:
\* process_single_image with analyze_algorithm_image, clean_latex_output and
\* save_latex_code, then the update of the counters
ProcessItem ==
    /\ pc = "loop"
    /\ idx <= Len(image_files)
    /\ ~IsHidden(image_files[idx])
    /\ LET image_path == image_files[idx]
       IN  \E read_ok \in BOOLEAN, answer \in service \cup {APIError},
              outcome \in SaveOutcomes :
             /\ reads' = reads + 1
             /\ IF ~read_ok
                THEN \* encode_image_to_base64 raises outside every try
                     /\ pc' = "crashed"
                     /\ log' = Append(log, [image |-> image_path,
                                            response |-> None,
                                            outcome |-> "read_error"])
                     /\ UNCHANGED <<idx, successful, failed, calls, writes,
                                    codes>>
                ELSE LET latex_code == analyze_algorithm_image(answer)
                         cleaned_code == clean_latex_output(latex_code)
                     IN  /\ calls' = calls + 1
                         /\ pc' = pc
                         /\ idx' = idx + 1
                         /\ IF NoResponse(latex_code)
                            THEN /\ failed' = failed + 1
                                 /\ log' = Append(log,
                                        [image |-> image_path,
                                         response |-> latex_code,
                                         outcome |-> "no_response"])
                                 /\ UNCHANGED <<successful, writes, codes>>
                            ELSE IF NoValidCode(cleaned_code)
                            THEN /\ failed' = failed + 1
                                 /\ log' = Append(log,
                                        [image |-> image_path,
                                         response |-> latex_code,
                                         outcome |-> "no_valid_code"])
                                 /\ UNCHANGED <<successful, writes, codes>>
                            ELSE /\ writes' = writes + 1
                                 /\ codes' = save_latex_code(codes,
                                        cleaned_code, OutputPath(image_path),
                                        outcome)
                                 /\ log' = Append(log,
                                        [image |-> image_path,
                                         response |-> latex_code,
                                         outcome |-> outcome])
                                 /\ IF outcome = "saved"
                                    THEN /\ successful' = successful + 1
                                         /\ failed' = failed
                                    ELSE /\ failed' = failed + 1
                                         /\ successful' = successful
    /\ UNCHANGED <<api_key, posix, images_dir, service, codes_exists,
                   constructed, image_files>>
    /\ UNCHANGED sanVars

\* the end of the loop: the summary
Summary ==
    /\ pc = "loop"
    /\ idx > Len(image_files)
    /\ pc' = "done"
    /\ UNCHANGED <<api_key, posix, images_dir, service, codes_exists, codes,
                   constructed, image_files, idx, successful, failed, reads,
                   calls, writes, log>>
    /\ UNCHANGED sanVars

Next ==
    \/ Main
    \/ Discover
    \/ SkipHidden
    \/ ProcessItem
    \/ Summary

Spec == Init /\ [][Next]_vars

----------------------------------------------------------------------------
(* Runs on one image with an arbitrary answer of the service *)

\* the fragments the strings of the sanitizer are made of
Fragments ==
    { <<BT>>, <<BT, BT>>, Fence, <<"l", "a", "t", "e", "x">>,
      <<"t", "e", "x">>, <<"\n">>, <<" ">>, <<"x">> }

\* the strings made of at most n fragments
RECURSIVE Strings(_)
Strings(n) ==
    IF n = 0 THEN {<<>>}
    ELSE LET shorter == Strings(n - 1)
         IN  shorter \cup { s \o f : s \in shorter, f \in Fragments }

\* a run with the credential set, one image and one hidden file in images/,
\* and a service that answers with one given string
InitResp ==
    /\ api_key = <<"s", "k">>
    /\ posix = TRUE
    /\ images_dir = {alg1_png, hidden_png}
    /\ service \in { {c} : c \in Strings(MaxRespPieces) }
    /\ codes_exists = FALSE
    /\ codes = <<>>
    /\ constructed = FALSE
    /\ pc = "start"
    /\ image_files = <<>>
    /\ idx = 1
    /\ successful = 0
    /\ failed = 0
    /\ reads = 0
    /\ calls = 0
    /\ writes = 0
    /\ log = <<>>
    /\ san_in = None
    /\ san_once = None
    /\ san_twice = None
    /\ san_pc = "idle"

SpecResp == InitResp /\ [][Next]_vars

----------------------------------------------------------------------------
(* The sanitizer on its own *)

InitClean ==
    /\ api_key = None
    /\ posix = TRUE
    /\ images_dir = NoDir
    /\ service = ServiceContents
    /\ codes_exists = FALSE
    /\ codes = <<>>
    /\ constructed = FALSE
    /\ pc = "start"
    /\ image_files = <<>>
    /\ idx = 1
    /\ successful = 0
    /\ failed = 0
    /\ reads = 0
    /\ calls = 0
    /\ writes = 0
    /\ log = <<>>
    /\ san_in \in Strings(MaxPieces) \cup {None}
    /\ san_once = None
    /\ san_twice = None
    /\ san_pc = "idle"

\* clean_latex_output applied to the input
CleanOnce ==
    /\ san_pc = "idle"
    /\ san_once' = clean_latex_output(san_in)
    /\ san_pc' = "once"
    /\ UNCHANGED <<san_in, san_twice>>
    /\ UNCHANGED pipeVars

\* clean_latex_output applied to its own result
CleanTwice ==
    /\ san_pc = "once"
    /\ san_twice' = clean_latex_output(san_once)
    /\ san_pc' = "twice"
    /\ UNCHANGED <<san_in, san_once>>
    /\ UNCHANGED pipeVars

NextClean ==
    \/ CleanOnce
    \/ CleanTwice

SpecClean == InitClean /\ [][NextClean]_vars

----------------------------------------------------------------------------
(* Properties *)

TypeOK ==
    /\ pc \in {"start", "no_credential", "constructed", "crashed", "no_dir",
               "no_items", "loop", "done"}
    /\ successful \in Nat
    /\ failed \in Nat
    /\ san_pc \in {"idle", "once", "twice"}

\* the positions of the log
Items == 1..Len(log)

\* the images handed to process_single_image, in order
ProcessedImages == [k \in Items |-> log[k].image]

\* the items of the log that were not saved
FailedItems == { k \in Items : log[k].outcome # "saved" }

\* the items of the log that were saved
SavedItems == { k \in Items : log[k].outcome = "saved" }

\* the entries of images/ a glob of process_all_images matches
Matched == { n \in images_dir : \E f \in supported_formats :
                                    n \in Glob(images_dir, f) }

\* C1: a failure to read one image is a per-item failure: the item is counted
\* as failed, the loop goes on to the later images and to the summary, and no
\* exception ends the run.
C1_ReadFailureIsPerItem ==
    \A k \in Items :
        log[k].outcome = "read_error" =>
            /\ pc \in {"loop", "done"}
            /\ failed = Cardinality(FailedItems)

\* C2: an item whose response is absent or empty, or empty once sanitized,
\* is counted as failed, save_latex_code is not called for it and no file of
\* codes/ is created or changed.
C2_NoOutputWithoutContent ==
    [][ (/\ Len(log') = Len(log) + 1
         /\ LET e == log'[Len(log')]
            IN  /\ e.outcome # "read_error"
                /\ \/ e.response = None
                   \/ e.response = <<>>
                   \/ clean_latex_output(e.response) = <<>>)
        => (/\ failed' = failed + 1
            /\ successful' = successful
            /\ writes' = writes
            /\ codes' = codes) ]_vars

\* C2 witness: one item failed for a response of fences only, another for an
\* absent response, and codes/ holds no file.
C2_Witness ==
    /\ \E k \in Items : /\ log[k].outcome = "no_valid_code"
                        /\ Contains(log[k].response, Fence)
    /\ \E k \in Items : /\ log[k].outcome = "no_response"
                        /\ log[k].response = None
    /\ failed = 2
    /\ codes = <<>>

\* C3: the sanitizer is idempotent: applied to its own result it returns
\* that result.
C3_SanitizerIdempotent ==
    san_pc = "twice" => san_twice = san_once

\* the letters of a language identifier
TagChars == {"l", "a", "t", "e", "x"}

\* position of the first newline of s, 0 when it has none
RECURSIVE FirstNewline(_)
FirstNewline(s) ==
    IF s = <<>> THEN 0
    ELSE IF Head(s) = "\n" THEN 1
    ELSE LET r == FirstNewline(Tail(s)) IN IF r = 0 THEN 0 ELSE r + 1

\* s is an opening fence, a language identifier (may be empty), a newline, an
\* interior and a closing fence
IsFenced(s) ==
    /\ s # None
    /\ Len(s) >= 7
    /\ StartsWith(s, Fence)
    /\ EndsWith(s, Fence)
    /\ LET nl == FirstNewline(s)
       IN  /\ 4 <= nl
           /\ nl <= Len(s) - 3
           /\ \A i \in 4..(nl - 1) : s[i] \in TagChars

\* the interior of a fenced string
Interior(s) == SubSeq(s, FirstNewline(s) + 1, Len(s) - 3)

\* C4: of a fenced response with any language identifier the sanitizer
\* returns exactly the interior, with the surrounding whitespace trimmed.
C4_FencedInteriorKept ==
    (san_pc # "idle" /\ IsFenced(san_in)) =>
        san_once = Strip(Interior(san_in))

\* the entries with a recognized extension, compared without case, that are
\* not hidden
Recognized ==
    { n \in images_dir : Lower(Suffix(n)) \in supported_formats
                         /\ ~IsHidden(n) }

\* C5: the images processed are exactly the entries of images/ with a
\* recognized extension, compared without case, and no leading dot, each
\* once, in sorted order.
C5_DiscoveryExact ==
    pc \in {"done", "no_items"} => ProcessedImages = SetToList(Recognized)

\* C6: when images/ exists and holds no entry that is matched and not hidden,
\* the run ends in the no-work-items condition, without a summary.
C6_NoWorkItems ==
    (/\ constructed
     /\ pc \notin {"constructed", "loop"}
     /\ images_dir # NoDir
     /\ { n \in Matched : ~IsHidden(n) } = {})
        => pc = "no_items"

alg1_tex == <<"a", "l", "g", "1", ".", "t", "e", "x">>

\* a finished run on alg1.png, alg1.jpg and notes.txt with both items saved
C7_Scenario ==
    /\ pc = "done"
    /\ images_dir = {alg1_png, alg1_jpg, notes_txt}
    /\ Len(log) = 2
    /\ SavedItems = {1, 2}

\* C7 as stated: alg1.png is processed first and alg1.jpg second, and the one
\* output file holds the result of alg1.jpg.
C7_PngThenJpg ==
    C7_Scenario =>
        /\ log[1].image = alg1_png
        /\ log[2].image = alg1_jpg
        /\ DOMAIN codes = {alg1_tex}
        /\ codes[alg1_tex] = clean_latex_output(log[2].response)

\* C7 amended: alg1.jpg is processed first and alg1.png second, both write
\* codes/alg1.tex, and the one output file holds the result of alg1.png, the
\* image processed second.
C7_JpgThenPng ==
    C7_Scenario =>
        /\ log[1].image = alg1_jpg
        /\ log[2].image = alg1_png
        /\ DOMAIN codes = {alg1_tex}
        /\ codes[alg1_tex] = clean_latex_output(log[2].response)

\* C7 witness: the scenario with two different results.
C7_Witness ==
    /\ C7_Scenario
    /\ clean_latex_output(log[1].response)
           # clean_latex_output(log[2].response)

\* C8: with the credential unset or empty nothing is read, called or written
\* and the converter is never constructed.
C8_NoCredentialNoWork ==
    (api_key = None \/ api_key = <<>>) =>
        /\ pc \in {"start", "no_credential"}
        /\ ~constructed
        /\ reads = 0
        /\ calls = 0
        /\ writes = 0
        /\ log = <<>>
        /\ codes = <<>>

\* C8 witness: main has ended on an empty credential.
C8_Witness ==
    /\ pc = "no_credential"
    /\ api_key = <<>>

\* C9: once the converter is constructed and an image is discovered, the run
\* ends with the summary, where every discovered image that is not hidden is
\* counted once, as successful exactly when its write succeeded.
C9_AlwaysSummary ==
    (image_files # <<>> /\ pc # "loop") =>
        /\ pc = "done"
        /\ successful + failed
               = Cardinality({ n \in Matched : ~IsHidden(n) })
        /\ successful = Cardinality(SavedItems)
        /\ Len(log) = successful + failed

\* the last item that opened the file p for writing
LastWrite(p) ==
    LET ks == { k \in Items : /\ OutputPath(log[k].image) = p
                              /\ log[k].outcome \in {"saved", "write_failed"} }
    IN  CHOOSE k \in ks : \A j \in ks : j <= k

====
